---------------------------- MODULE Spec2Model ----------------------------
(***************************************************************************)
(* A model of python-tesseract's OCR pipeline: the Input Router            *)
(* (OCRPipeline.process), the Page Orchestrator (process_pdf /             *)
(* process_image), the Recognizer adapter (TesseractOCRParser) with its    *)
(* confidence aggregator, and the Rasterizer adapter (PDFToImageService).  *)
(*                                                                         *)
(* Python values are modelled as follows.                                  *)
(*   str            a sequence of one-character strings                    *)
(*   Optional[T]    <<>> for None, <<v>> for a value v                     *)
(*   float average  an exact fraction [num, den] in lowest terms           *)
(*   a return value a record tagged with its Python type                   *)
(*   an exception   a record naming its class and its message              *)
(***************************************************************************)
EXTENDS Integers, Sequences, FiniteSets, TLC

\* The longest element list the Recognizer backend reports for one bitmap.
MaxLen == 3

\* The largest page count of a document.
MaxPages == 3

\* The most bitmaps save_images is given.
MaxSaved == 11

None == <<>>

Some(v) == <<v>>

-----------------------------------------------------------------------------
(* Python built-ins used by the code *)

Whitespace == {" ", "\n", "\t"}

RECURSIVE LStrip(_)
LStrip(s) ==
  IF s = <<>> THEN <<>>
  ELSE IF Head(s) \in Whitespace THEN LStrip(Tail(s)) ELSE s

RECURSIVE RStrip(_)
RStrip(s) ==
  IF s = <<>> THEN <<>>
  ELSE IF s[Len(s)] \in Whitespace THEN RStrip(SubSeq(s, 1, Len(s) - 1)) ELSE s

\* str.strip()
Strip(s) == RStrip(LStrip(s))

DigitVal ==
  [c \in {"0", "1", "2", "3", "4", "5", "6", "7", "8", "9"} |->
     CASE c = "0" -> 0 [] c = "1" -> 1 [] c = "2" -> 2 [] c = "3" -> 3
       [] c = "4" -> 4 [] c = "5" -> 5 [] c = "6" -> 6 [] c = "7" -> 7
       [] c = "8" -> 8 [] c = "9" -> 9]

RECURSIVE ParseDigits(_)
ParseDigits(s) ==
  IF s = <<>> THEN 0
  ELSE 10 * ParseDigits(SubSeq(s, 1, Len(s) - 1)) + DigitVal[s[Len(s)]]

\* int(s) for a decimal string s with an optional sign
PyInt(s) ==
  IF s # <<>> /\ Head(s) = "-" THEN 0 - ParseDigits(Tail(s))
  ELSE IF s # <<>> /\ Head(s) = "+" THEN ParseDigits(Tail(s))
  ELSE ParseDigits(s)

DigitChar(d) == CHOOSE c \in DOMAIN DigitVal : DigitVal[c] = d

\* str(n) for n >= 0
RECURSIVE Digits(_)
Digits(n) ==
  IF n < 10 THEN <<DigitChar(n)>>
  ELSE Digits(n \div 10) \o <<DigitChar(n % 10)>>

\* format(n, "0wd") for n >= 0: str(n) filled with zeros on the left up to
\* the width w, and left as it is when it is longer.
RECURSIVE ZeroPad(_, _)
ZeroPad(s, w) == IF Len(s) >= w THEN s ELSE ZeroPad(<<"0">> \o s, w)

RECURSIVE Sum(_)
Sum(s) == IF s = <<>> THEN 0 ELSE Head(s) + Sum(Tail(s))

\* sep.join(parts)
RECURSIVE Join(_, _)
Join(sep, parts) ==
  IF parts = <<>> THEN <<>>
  ELSE IF Len(parts) = 1 THEN parts[1]
  ELSE parts[1] \o sep \o Join(sep, Tail(parts))

RECURSIVE Gcd(_, _)
Gcd(a, b) == IF b = 0 THEN a ELSE Gcd(b, a % b)

\* a / b for integers a >= 0, b > 0, kept exact
Div(a, b) == LET g == Gcd(a, b) IN [num |-> a \div g, den |-> b \div g]

Zero == [num |-> 0, den |-> 1]

-----------------------------------------------------------------------------
(* What the Recognizer backend reads in a bitmap *)

\* One recognised element, as pytesseract's image_to_data reports it: the
\* text, the confidence as a decimal string, the bounding box.
ElementSeq ==
  << [text |-> <<"H", "i">>, conf |-> <<"9", "5">>,
     left |-> 10, top |-> 20, width |-> 50, height |-> 30],
    [text |-> <<>>, conf |-> <<"-", "1">>,
     left |-> 0, top |-> 0, width |-> 640, height |-> 480],
    [text |-> <<"W", "o">>, conf |-> <<"8", "8">>,
     left |-> 70, top |-> 21, width |-> 60, height |-> 31],
    [text |-> <<" ">>, conf |-> <<"9", "0">>,
     left |-> 140, top |-> 22, width |-> 5, height |-> 32],
    [text |-> <<"Z">>, conf |-> <<"0">>,
     left |-> 150, top |-> 23, width |-> 12, height |-> 33],
    [text |-> <<"x">>, conf |-> <<"-", "1">>,
     left |-> 170, top |-> 24, width |-> 11, height |-> 34],
    [text |-> <<" ", "L", " ">>, conf |-> <<"3", "0">>,
     left |-> 190, top |-> 25, width |-> 40, height |-> 35] >>

Elements == { ElementSeq[i] : i \in 1..Len(ElementSeq) }

ElementLists == UNION { [1..n -> Elements] : n \in 0..MaxLen }

\* The dict of parallel arrays image_to_data returns (Output.DICT) for a
\* bitmap holding the elements elems.
image_to_data(elems) ==
  [ text   |-> [i \in 1..Len(elems) |-> elems[i].text],
    conf   |-> [i \in 1..Len(elems) |-> elems[i].conf],
    left   |-> [i \in 1..Len(elems) |-> elems[i].left],
    top    |-> [i \in 1..Len(elems) |-> elems[i].top],
    width  |-> [i \in 1..Len(elems) |-> elems[i].width],
    height |-> [i \in 1..Len(elems) |-> elems[i].height] ]

\* The string image_to_string returns for the same bitmap: the texts in
\* reading order, with the engine's trailing line break.
image_to_string(elems) ==
  Join(<<" ">>, [i \in 1..Len(elems) |-> elems[i].text]) \o <<"\n">>

-----------------------------------------------------------------------------
(* TesseractOCRParser.extract_text_with_confidence: the aggregator *)

\* The word record built for element i (lines 194-203).
WordAt(data, i) ==
  [ text       |-> data.text[i],
    confidence |-> PyInt(data.conf[i]),
    bbox       |-> [ left   |-> data.left[i],
                     top    |-> data.top[i],
                     width  |-> data.width[i],
                     height |-> data.height[i] ] ]

\* Keeps with the threshold test off by one: a confidence equal to the
\* threshold is dropped.
Keeps_strict(data, min_confidence, i) ==
  /\ Strip(data.text[i]) # <<>>
  /\ ~(PyInt(data.conf[i]) <= min_confidence)

\* Keeps with the threshold test the wrong way round: a confidence above the
\* threshold is dropped.
Keeps_reversed(data, min_confidence, i) ==
  /\ Strip(data.text[i]) # <<>>
  /\ ~(PyInt(data.conf[i]) > min_confidence)

\* Keeps without the threshold test: every element with text is kept.
Keeps_text_only(data, min_confidence, i) ==
  Strip(data.text[i]) # <<>>

\* Whether the loop appends element i to words (lines 187-192).
Keeps(data, min_confidence, i) ==
  /\ Strip(data.text[i]) # <<>>
  /\ ~(PyInt(data.conf[i]) < min_confidence)

\* The loop of lines 185-203, from element i on.
RECURSIVE WordsFrom(_, _, _)
WordsFrom(data, min_confidence, i) ==
  IF i > Len(data.text) THEN <<>>
  ELSE IF Keeps(data, min_confidence, i)
       THEN <<WordAt(data, i)>> \o WordsFrom(data, min_confidence, i + 1)
       ELSE WordsFrom(data, min_confidence, i + 1)

Words(data, min_confidence) == WordsFrom(data, min_confidence, 1)

\* AvgConf with the zero confidences counted in.
AvgConf_nonneg(words) ==
  LET confs == [i \in 1..Len(words) |-> words[i].confidence]
      valid_conf == SelectSeq(confs, LAMBDA c : c >= 0)
  IN  IF valid_conf # <<>> THEN Div(Sum(valid_conf), Len(valid_conf)) ELSE Zero

\* AvgConf as the mean of the positive confidences over all the words.
AvgConf_all(words) ==
  LET confs == [i \in 1..Len(words) |-> words[i].confidence]
      valid_conf == SelectSeq(confs, LAMBDA c : c > 0)
  IN  IF words # <<>> THEN Div(Sum(valid_conf), Len(words)) ELSE Zero

\* AvgConf as the plain mean of all the words' confidences.
AvgConf_unfiltered(words) ==
  LET confs == [i \in 1..Len(words) |-> words[i].confidence]
  IN  IF confs # <<>> THEN Div(Sum(confs), Len(confs)) ELSE Zero

\* Lines 205-206.
AvgConf(words) ==
  LET confs == [i \in 1..Len(words) |-> words[i].confidence]
      valid_conf == SelectSeq(confs, LAMBDA c : c > 0)
  IN  IF valid_conf # <<>> THEN Div(Sum(valid_conf), Len(valid_conf)) ELSE Zero

\* FullText joining the words last to first.
FullText_reversed(words) ==
  Join(<<" ">>, [i \in 1..Len(words) |-> words[Len(words) + 1 - i].text])

\* Line 208.
FullText(words) == Join(<<" ">>, [i \in 1..Len(words) |-> words[i].text])

\* The dict returned at lines 210-215.
Aggregate(data, min_confidence) ==
  LET words == Words(data, min_confidence)
  IN  [ full_text      |-> FullText(words),
        words          |-> words,
        avg_confidence |-> AvgConf(words),
        total_words    |-> Len(words) ]

-----------------------------------------------------------------------------
(* Values crossing the API *)

\* A str result.
Str(s) == [type |-> "str", v |-> s]

\* The raw dict of parallel arrays.
DictData(d) == [type |-> "data", v |-> d]

\* The dict extract_text_with_confidence builds.
Agg(a) == [type |-> "aggregate", v |-> a]

\* A Python list of page results, or of bitmaps.
List(items) == [type |-> "list", v |-> items]

\* A PIL image.
Bitmap(b) == [type |-> "image", v |-> b]

NoValue == [type |-> "none", v |-> <<>>]

\* A pathlib.Path.
PathValue(p) == [type |-> "path", v |-> p]

Return(value) == [kind |-> "return", value |-> value, error |-> "", msg |-> ""]

Raise(error, msg) == [kind |-> "raise", value |-> NoValue, error |-> error, msg |-> msg]

Running == [kind |-> "running", value |-> NoValue, error |-> "", msg |-> ""]

-----------------------------------------------------------------------------
(* The environment: file names, files, bitmaps *)

\* File names, as the last component of the input path.
Names ==
  { <<"d", ".", "p", "d", "f">>,
    <<"d", ".", "P", "D", "F">>,
    <<"d", ".", "P", "d", "f">>,
    <<"s", ".", "p", "n", "g">>,
    <<"p", "d", "f">>,
    <<".", "p", "d", "f">>,
    <<"d", ".", "p", "d", "f", ".", "p", "n", "g">>,
    <<"d", ".", "p", "d", "f", "x">> }

\* The elements on page p of a document: two per page, different on
\* neighbouring pages.
PageElements(p) ==
  [i \in 1..2 |-> ElementSeq[((2 * p + i - 3) % Len(ElementSeq)) + 1]]

\* The bitmap of page p of a document; page 0 is a bitmap that is no page.
PageBitmap(p) == [page |-> p, elems |-> PageElements(p)]

ImageBitmap(elems) == [page |-> 0, elems |-> elems]

\* The contents of the image files on disk.
SampleLists ==
  { <<ElementSeq[1], ElementSeq[2], ElementSeq[3]>>,
    <<ElementSeq[5], ElementSeq[6]>>,
    <<ElementSeq[7], ElementSeq[5], ElementSeq[1]>>,
    <<>> }

MissingFile == [exists |-> FALSE, kind |-> "none", pages |-> 0, elems |-> <<>>]

PdfFiles == { [exists |-> TRUE, kind |-> "pdf", pages |-> n, elems |-> <<>>] : n \in 1..MaxPages }

ImageFiles == { [exists |-> TRUE, kind |-> "image", pages |-> 0, elems |-> l] : l \in SampleLists }

Files == {MissingFile} \cup PdfFiles \cup ImageFiles

\* An image_source argument: a PIL image or a path.
ImageSource(b) == [isImage |-> TRUE, bitmap |-> b, path |-> <<>>]

PathSource(name) == [isImage |-> FALSE, bitmap |-> ImageBitmap(<<>>), path |-> name]

NoSource == PathSource(<<>>)

PageNumbers == {None} \cup { Some(p) : p \in (0 - 1)..(MaxPages + 1) }

Thresholds == {0 - 5, 0, 30, 88, 96}

MinConfidences == {None} \cup { Some(t) : t \in Thresholds }

\* The arguments of save_images: the first n pages of a document, a
\* directory, a base name and a format.
SavedImages == { [i \in 1..n |-> PageBitmap(i)] : n \in 0..MaxSaved }

OutputDirs == { <<"o", "u", "t">>, <<"a", "/", "b">> }

BaseNames == { <<"p", "a", "g", "e">>, <<"s">> }

Formats == { <<"P", "N", "G">>, <<"p", "n", "g">>, <<"P", "n", "g">> }

\* image.save fails on the k-th of n images, or on none (0).
SaveOutcomes(n) == 0..n

\* How a call into a backend library ends.
EngineOutcomes(f) == IF f.kind = "pdf" THEN {"ok", "empty", "raise"} ELSE {"raise"}

OpenOutcomes(f) == IF f.kind = "image" THEN {"ok", "fail"} ELSE {"fail"}

BackendOutcomes == {"ok", "TesseractError", "TesseractNotFoundError"}

-----------------------------------------------------------------------------
(* pathlib and str helpers used by the Input Router *)

LowerChar(c) ==
  CASE c = "P" -> "p" [] c = "D" -> "d" [] c = "F" -> "f" [] c = "N" -> "n"
    [] c = "G" -> "g" [] c = "S" -> "s" [] c = "X" -> "x" [] OTHER -> c

\* str.lower()
Lower(s) == [i \in 1..Len(s) |-> LowerChar(s[i])]

UpperChar(c) ==
  CASE c = "p" -> "P" [] c = "d" -> "D" [] c = "f" -> "F" [] c = "n" -> "N"
    [] c = "g" -> "G" [] c = "s" -> "S" [] c = "x" -> "X" [] OTHER -> c

\* str.upper()
Upper(s) == [i \in 1..Len(s) |-> UpperChar(s[i])]

\* The position of the last "." of name, 0 when it has none (str.rfind + 1).
RECURSIVE RFindDot(_, _)
RFindDot(name, i) ==
  IF i = 0 THEN 0 ELSE IF name[i] = "." THEN i ELSE RFindDot(name, i - 1)

\* PurePath.suffix: the last dot of the name and what follows it, unless the
\* dot is the first or the last character of the name.
Suffix(name) ==
  LET i == RFindDot(name, Len(name))
  IN  IF 1 < i /\ i < Len(name) THEN SubSeq(name, i, Len(name)) ELSE <<>>

PdfSuffix == <<".", "p", "d", "f">>

-----------------------------------------------------------------------------
(* Calls, as the unit tests' mocks record them *)

\* A call of fn made by the function by, and how it ended ("return", or
\* "raise" with the class of the exception).  The page range is that of a Rasterizer call, count the number of
\* bitmaps it returned; the source and min_confidence are those of a
\* Recognizer call.
RasterCall(by, fn, first_page, last_page, out) ==
  [by |-> by, fn |-> fn, ended |-> out.kind, error |-> out.error,
   first |-> first_page, last |-> last_page,
   count |-> IF out.kind = "return" /\ out.value.type = "list"
             THEN Len(out.value.v)
             ELSE IF out.kind = "return" THEN 1 ELSE 0,
   source |-> NoSource, min_confidence |-> None]

OcrCall(by, fn, source, min_confidence, out) ==
  [by |-> by, fn |-> fn, ended |-> out.kind, error |-> out.error,
   first |-> None, last |-> None, count |-> 0,
   source |-> source, min_confidence |-> min_confidence]

\* A call image.save(path, format) made by save_images.
SaveCall(image, path, format, out) ==
  [by |-> "save_images", fn |-> "save", ended |-> out.kind, error |-> out.error,
   first |-> None, last |-> None, count |-> 0,
   source |-> ImageSource(image), min_confidence |-> None,
   path |-> path, format |-> format]

\* What running a function gives: how it ends and the calls it made, in order.
Ran(out, made) == [out |-> out, calls |-> made]

-----------------------------------------------------------------------------
(* TesseractOCRParser *)

\* _load_image (lines 63-73): the bitmap, FileNotFoundError or OCRError.
load_image(source, f, open) ==
  IF source.isImage THEN Return(Bitmap(source.bitmap))
  ELSE IF ~f.exists THEN Raise("FileNotFoundError", "Image file not found")
  ELSE IF open = "ok" THEN Return(Bitmap(ImageBitmap(f.elems)))
  ELSE Raise("OCRError", "Failed to load image")

\* extract_text (lines 94-110).
extract_text(source, f, open, backend) ==
  LET image == load_image(source, f, open)
      text  == IF backend = "ok"
               THEN Return(Str(image_to_string(image.value.v.elems)))
               ELSE Raise(backend, "")
      made  == <<OcrCall("extract_text", "image_to_string",
                         ImageSource(image.value.v), None, text)>>
  IN  IF image.kind = "raise" THEN Ran(image, <<>>)
      ELSE IF text.kind = "return"
           THEN Ran(Return(Str(Strip(text.value.v))), made)
      ELSE IF text.error = "TesseractError"
           THEN Ran(Raise("OCRError", "OCR processing failed"), made)
      ELSE Ran(text, made)

\* extract_data (lines 137-160).
extract_data(source, f, open, backend) ==
  LET image == load_image(source, f, open)
      data  == IF backend = "ok"
               THEN Return(DictData(image_to_data(image.value.v.elems)))
               ELSE Raise(backend, "")
      made  == <<OcrCall("extract_data", "image_to_data",
                         ImageSource(image.value.v), None, data)>>
  IN  IF image.kind = "raise" THEN Ran(image, <<>>)
      ELSE IF data.kind = "return" THEN Ran(data, made)
      ELSE IF data.error = "TesseractError"
           THEN Ran(Raise("OCRError", "OCR data extraction failed"), made)
      ELSE Ran(data, made)

\* extract_text_with_confidence (lines 183-215).
extract_text_with_confidence(source, min_confidence, f, open, backend) ==
  LET data == extract_data(source, f, open, backend)
      made == <<OcrCall("extract_text_with_confidence", "extract_data", source,
                        None, data.out)>> \o data.calls
  IN  IF data.out.kind = "raise" THEN Ran(data.out, made)
      ELSE Ran(Return(Agg(Aggregate(data.out.value.v, min_confidence))), made)

-----------------------------------------------------------------------------
(* PDFToImageService *)

\* pdf2image.convert_from_path on a document of f.pages pages: the bitmaps of
\* the pages first..last, both 1-indexed and inclusive, clamped to the document.
convert_from_path(f, first_page, last_page) ==
  LET lo == IF first_page = None \/ first_page[1] < 1 THEN 1 ELSE first_page[1]
      hi == IF last_page = None \/ last_page[1] > f.pages THEN f.pages ELSE last_page[1]
  IN  IF lo > hi THEN <<>> ELSE [i \in 1..(hi - lo + 1) |-> PageBitmap(lo + i - 1)]

\* convert_pdf_to_images without the check for an empty list of lines 72-78.
convert_pdf_to_images_unchecked(f, first_page, last_page, engine) ==
  LET images == IF engine = "raise" THEN Raise("PDFPageCountError", "")
                ELSE IF engine = "empty" THEN Return(List(<<>>))
                ELSE Return(List(convert_from_path(f, first_page, last_page)))
      made   == <<RasterCall("convert_pdf_to_images", "convert_from_path",
                             first_page, last_page, images)>>
  IN  IF ~f.exists THEN Ran(Raise("FileNotFoundError", "PDF file not found"), <<>>)
      ELSE IF images.kind = "raise"
           THEN Ran(Raise("PDFConversionError", "Failed to convert PDF"), made)
      ELSE Ran(images, made)

\* convert_pdf_to_images with the existence check inside the try block, so
\* that its FileNotFoundError is wrapped like any other exception.
convert_pdf_to_images_wrapping(f, first_page, last_page, engine) ==
  LET images == IF engine = "raise" THEN Raise("PDFPageCountError", "")
                ELSE IF engine = "empty" THEN Return(List(<<>>))
                ELSE Return(List(convert_from_path(f, first_page, last_page)))
      made   == <<RasterCall("convert_pdf_to_images", "convert_from_path",
                             first_page, last_page, images)>>
  IN  IF ~f.exists THEN Ran(Raise("PDFConversionError", "Failed to convert PDF"), <<>>)
      ELSE IF images.kind = "raise"
           THEN Ran(Raise("PDFConversionError", "Failed to convert PDF"), made)
      ELSE IF images.value.v = <<>>
           THEN Ran(Raise("PDFConversionError", "No pages extracted from PDF"), made)
      ELSE Ran(images, made)

\* convert_pdf_to_images whose except clause wraps every exception of the try
\* block, its own PDFConversionError included.
convert_pdf_to_images_rewrapping(f, first_page, last_page, engine) ==
  LET images == IF engine = "raise" THEN Raise("PDFPageCountError", "")
                ELSE IF engine = "empty" THEN Return(List(<<>>))
                ELSE Return(List(convert_from_path(f, first_page, last_page)))
      made   == <<RasterCall("convert_pdf_to_images", "convert_from_path",
                             first_page, last_page, images)>>
  IN  IF ~f.exists THEN Ran(Raise("FileNotFoundError", "PDF file not found"), <<>>)
      ELSE IF images.kind = "raise"
           THEN Ran(Raise("PDFConversionError", "Failed to convert PDF"), made)
      ELSE IF images.value.v = <<>>
           THEN Ran(Raise("PDFConversionError", "Failed to convert PDF"), made)
      ELSE Ran(images, made)

\* convert_pdf_to_images (lines 56-87).
convert_pdf_to_images(f, first_page, last_page, engine) ==
  LET images == IF engine = "raise" THEN Raise("PDFPageCountError", "")
                ELSE IF engine = "empty" THEN Return(List(<<>>))
                ELSE Return(List(convert_from_path(f, first_page, last_page)))
      made   == <<RasterCall("convert_pdf_to_images", "convert_from_path",
                             first_page, last_page, images)>>
  IN  IF ~f.exists THEN Ran(Raise("FileNotFoundError", "PDF file not found"), <<>>)
      ELSE IF images.kind = "raise"
           THEN Ran(Raise("PDFConversionError", "Failed to convert PDF"), made)
      ELSE IF images.value.v = <<>>
           THEN Ran(Raise("PDFConversionError", "No pages extracted from PDF"), made)
      ELSE Ran(images, made)

\* convert_single_page that leaves the range open at its end.
convert_single_page_open(f, page_number, engine) ==
  LET images == convert_pdf_to_images(f, Some(page_number), None, engine)
      made   == <<RasterCall("convert_single_page", "convert_pdf_to_images",
                             Some(page_number), None, images.out)>>
                  \o images.calls
  IN  IF images.out.kind = "raise" THEN Ran(images.out, made)
      ELSE Ran(Return(Bitmap(images.out.value.v[1])), made)

\* convert_single_page (lines 108-117).
convert_single_page(f, page_number, engine) ==
  LET images == convert_pdf_to_images(f, Some(page_number), Some(page_number), engine)
      made   == <<RasterCall("convert_single_page", "convert_pdf_to_images",
                             Some(page_number), Some(page_number), images.out)>>
                  \o images.calls
  IN  IF images.out.kind = "raise" THEN Ran(images.out, made)
      ELSE IF images.out.value.v = <<>>
           THEN Ran(Raise("PDFConversionError", "Failed to convert page"), made)
      ELSE Ran(Return(Bitmap(images.out.value.v[1])), made)

\* OutputPath with the format as the caller spelled it.
OutputPath_as_given(output_dir, base_name, idx, format) ==
  output_dir \o <<"/">> \o base_name \o <<"_">> \o ZeroPad(Digits(idx), 3)
    \o <<".">> \o format

\* output_dir / f"{base_name}_{idx:03d}.{format.lower()}" (line 143).
OutputPath(output_dir, base_name, idx, format) ==
  output_dir \o <<"/">> \o base_name \o <<"_">> \o ZeroPad(Digits(idx), 3)
    \o <<".">> \o Lower(format)

\* The loop of save_images (lines 142-146) from the idx-th image on, with the
\* paths saved so far; image.save fails on the failAt-th image, on none when
\* failAt is 0.
RECURSIVE save_from(_, _, _, _, _, _, _)
save_from(imgs, output_dir, base_name, format, failAt, idx, saved_paths) ==
  IF idx > Len(imgs) THEN Ran(Return(List(saved_paths)), <<>>)
  ELSE LET output_path == OutputPath(output_dir, base_name, idx, format)
       IN  IF idx = failAt
           THEN Ran(Raise("OSError", ""),
                    <<SaveCall(imgs[idx], output_path, Upper(format), Raise("OSError", ""))>>)
           ELSE LET rest == save_from(imgs, output_dir, base_name, format, failAt,
                                      idx + 1, Append(saved_paths, PathValue(output_path)))
                IN  Ran(rest.out,
                        <<SaveCall(imgs[idx], output_path, Upper(format), Return(NoValue))>>
                          \o rest.calls)

\* save_images (lines 139-149).
save_images(imgs, output_dir, base_name, format, failAt) ==
  save_from(imgs, output_dir, base_name, format, failAt, 1, <<>>)

-----------------------------------------------------------------------------
(* OCRPipeline *)

\* Truthy testing for None only: 0 counts as a page number.
Truthy_not_none(page_number) == page_number # None

\* Python truthiness of an Optional[int] (if page_number:).
Truthy(page_number) == page_number # None /\ page_number[1] # 0

\* ParserMethod testing min_confidence for truth, not for None.
ParserMethod_truthy(extractData, min_confidence) ==
  IF min_confidence # None /\ min_confidence[1] # 0
  THEN "extract_text_with_confidence"
  ELSE IF extractData THEN "extract_data"
  ELSE "extract_text"

\* The parser method process_image dispatches to (lines 72-80).
ParserMethod(extractData, min_confidence) ==
  IF min_confidence # None THEN "extract_text_with_confidence"
  ELSE IF extractData THEN "extract_data"
  ELSE "extract_text"

\* process_image (lines 71-84): the dispatched parser call; FileNotFoundError
\* and OCRError are logged and raised again, anything else propagates untouched.
process_image(source, extractData, min_confidence, f, open, backend) ==
  LET method == ParserMethod(extractData, min_confidence)
      ran    == IF method = "extract_text_with_confidence"
                THEN extract_text_with_confidence(source, min_confidence[1], f, open, backend)
                ELSE IF method = "extract_data"
                THEN extract_data(source, f, open, backend)
                ELSE extract_text(source, f, open, backend)
  IN  Ran(ran.out, <<OcrCall("process_image", method, source, min_confidence, ran.out)>>
                     \o ran.calls)

\* image_branch refusing a page_number instead of ignoring it.
image_branch_strict(source, extractData, page_number, min_confidence, f, open, backend) ==
  IF Truthy(page_number)
  THEN Ran(Raise("ValueError", "page_number given for an image"), <<>>)
  ELSE process_image(source, extractData, min_confidence, f, open, backend)

\* image_branch returning its result as a list of one, as the PDF branch does
\* for a whole document.
image_branch_listed(source, extractData, page_number, min_confidence, f, open, backend) ==
  LET ran == process_image(source, extractData, min_confidence, f, open, backend)
  IN  IF ran.out.kind = "raise" THEN ran
      ELSE Ran(Return(List(<<ran.out.value>>)), ran.calls)

\* The image branch of process (lines 159-163): a page_number only gets a
\* warning logged; process_image is called without it.
image_branch(source, extractData, page_number, min_confidence, f, open, backend) ==
  process_image(source, extractData, min_confidence, f, open, backend)

\* pdf_images asking the PDF service a second time for what it already has.
pdf_images_twice(f, page_number, engine) ==
  IF Truthy(page_number)
  THEN LET page == convert_single_page(f, page_number[1], engine)
           made == <<RasterCall("process_pdf", "convert_single_page",
                                page_number, page_number, page.out)>> \o page.calls
       IN  IF page.out.kind = "raise" THEN Ran(page.out, made \o made)
           ELSE Ran(Return(List(<<page.out.value.v>>)), made \o made)
  ELSE LET pages == convert_pdf_to_images(f, None, None, engine)
           made  == <<RasterCall("process_pdf", "convert_pdf_to_images",
                                 None, None, pages.out)>> \o pages.calls
       IN  Ran(pages.out, made \o made)

\* The bitmaps process_pdf gets from the PDF service (lines 110-113).
pdf_images(f, page_number, engine) ==
  IF Truthy(page_number)
  THEN LET page == convert_single_page(f, page_number[1], engine)
           made == <<RasterCall("process_pdf", "convert_single_page",
                                page_number, page_number, page.out)>> \o page.calls
       IN  IF page.out.kind = "raise" THEN Ran(page.out, made)
           ELSE Ran(Return(List(<<page.out.value.v>>)), made)
  ELSE LET pages == convert_pdf_to_images(f, None, None, engine)
       IN  Ran(pages.out, <<RasterCall("process_pdf", "convert_pdf_to_images",
                                       None, None, pages.out)>> \o pages.calls)

\* page_turn inserting each result at the front of the list.
page_turn_prepend(out, pageResults, page) ==
  IF out.kind = "raise"
  THEN [pc |-> "done", outcome |-> out, results |-> pageResults, idx |-> page]
  ELSE [pc |-> "pages", outcome |-> Running,
        results |-> <<out.value>> \o pageResults, idx |-> page + 1]

\* page_turn skipping a page whose recognition failed.
page_turn_skip(out, pageResults, page) ==
  IF out.kind = "raise"
  THEN [pc |-> "pages", outcome |-> Running, results |-> pageResults, idx |-> page + 1]
  ELSE [pc |-> "pages", outcome |-> Running,
        results |-> Append(pageResults, out.value), idx |-> page + 1]

\* page_turn going on to the next page but one.
page_turn_stride(out, pageResults, page) ==
  IF out.kind = "raise"
  THEN [pc |-> "done", outcome |-> out, results |-> pageResults, idx |-> page]
  ELSE [pc |-> "pages", outcome |-> Running,
        results |-> Append(pageResults, out.value), idx |-> page + 2]

\* One turn of the loop of process_pdf (lines 117-120) on the outcome of
\* process_image: the result is appended, or the exception ends the call.
page_turn(out, pageResults, page) ==
  IF out.kind = "raise"
  THEN [pc |-> "done", outcome |-> out, results |-> pageResults, idx |-> page]
  ELSE [pc |-> "pages", outcome |-> Running,
        results |-> Append(pageResults, out.value), idx |-> page + 1]

\* What process_pdf returns once every page is processed (lines 123-126).
pdf_result(page_number, pageResults) ==
  IF Truthy(page_number) THEN pageResults[1] ELSE List(pageResults)

\* IsPdf comparing the suffix as it is spelled.
IsPdf_cased(name) == Suffix(name) = PdfSuffix

\* Whether process sends the path to process_pdf (line 157).
IsPdf(name) == Lower(Suffix(name)) = PdfSuffix

\* route without the existence check of lines 153-154.
route_unchecked(name, f) ==
  IF IsPdf(name) THEN "process_pdf" ELSE "process_image"

\* Where process sends its input (lines 151-163).
route(name, f) ==
  IF ~f.exists THEN "FileNotFoundError"
  ELSE IF IsPdf(name) THEN "process_pdf"
  ELSE "process_image"

-----------------------------------------------------------------------------
(* The constructors *)

\* The most parsers and pipelines constructed in one process.
MaxInstances == 3

\* pytesseract's command before any constructor sets one.
DefaultCmd == <<"t", "e", "s", "s", "e", "r", "a", "c", "t">>

\* The default of the lang parameter.
DefaultLang == "eng"

\* Python truthiness of an Optional[str] (if tesseract_cmd:).
TruthyStr(s) == s # None /\ s[1] # <<>>

\* The arguments of a constructor call.
Construction(kind, cmd, prefix, lang) ==
  [kind |-> kind, tesseract_cmd |-> cmd, tessdata_prefix |-> prefix, lang |-> lang]

CmdArgs == {None, Some(<<"a">>), Some(<<"b">>)}

\* The empty string is an argument that is given and is not truthy.
PrefixArgs == {None, Some(<<>>), Some(<<"q">>)}

Langs == {"eng", "fra"}

\* TesseractOCRParser.__init__ that goes back to the defaults when it is
\* given no command or no data directory.
TesseractOCRParser_init_resetting(cmd, prefix, lang, global_cmd, environ_prefix) ==
  [tesseract_cmd   |-> IF TruthyStr(cmd) THEN cmd[1] ELSE DefaultCmd,
   TESSDATA_PREFIX |-> IF TruthyStr(prefix) THEN Some(prefix[1]) ELSE None,
   self            |-> [kind |-> "parser", lang |-> lang]]

\* TesseractOCRParser.__init__ (lines 37-47): what it leaves in the two
\* process-wide settings, given what they hold, and the new object.
TesseractOCRParser_init(cmd, prefix, lang, global_cmd, environ_prefix) ==
  [tesseract_cmd   |-> IF TruthyStr(cmd) THEN cmd[1] ELSE global_cmd,
   TESSDATA_PREFIX |-> IF TruthyStr(prefix) THEN Some(prefix[1]) ELSE environ_prefix,
   self            |-> [kind |-> "parser", lang |-> lang]]

\* OCRPipeline.__init__ (lines 44-49): the pipeline holds a parser constructed
\* with its arguments.
OCRPipeline_init(cmd, prefix, lang, global_cmd, environ_prefix) ==
  LET ocr_parser == TesseractOCRParser_init(cmd, prefix, lang, global_cmd, environ_prefix)
  IN  [ocr_parser EXCEPT !.self = [kind |-> "pipeline", lang |-> ocr_parser.self.lang]]

-----------------------------------------------------------------------------
(* The state: one call of the public API at a time, step by step *)

VARIABLES
  pc,       \* where the current call stands: "idle", a function name, "pages", "done"
  op,       \* the public function the caller called
  args,     \* its arguments
  file,     \* what the file system holds at the path of the call
  images,   \* process_pdf: the bitmaps to process
  idx,      \* process_pdf: the page of the loop, from 1
  results,  \* process_pdf: the results list
  outcome,  \* how the call ended: a return value or an exception
  calls,    \* every call made to a collaborator so far, in order
  tesseract_cmd,    \* pytesseract.pytesseract.tesseract_cmd, one per process
  TESSDATA_PREFIX,  \* os.environ['TESSDATA_PREFIX'], one per process
  instances,        \* the parsers and pipelines constructed so far
  constructions,    \* the arguments each of them was constructed with
  self,     \* the instance the current call is on, 0 when there is none
  used      \* what the backend last ran with in the current call

vars == <<pc, op, args, file, images, idx, results, outcome, calls,
          tesseract_cmd, TESSDATA_PREFIX, instances, constructions, self, used>>

\* What the constructors write.
Configuration == <<tesseract_cmd, TESSDATA_PREFIX, instances, constructions>>

\* The command, the data directory and the language pytesseract runs with
\* when the instance self calls it (lines 98-103 and 141-146).
BackendConfig ==
  [tesseract_cmd |-> tesseract_cmd, TESSDATA_PREFIX |-> TESSDATA_PREFIX,
   lang |-> instances[self].lang]

\* Whether pytesseract was called between the logs before and after.
BackendRan(before, after) ==
  \E i \in (Len(before) + 1)..Len(after) :
    after[i].fn \in {"image_to_string", "image_to_data"}

NoArgs ==
  [name |-> <<>>, source |-> NoSource, extract_data |-> FALSE,
   page_number |-> None, min_confidence |-> None, last_page |-> None]

Init ==
  /\ pc = "idle"
  /\ op = "none"
  /\ args = NoArgs
  /\ file = MissingFile
  /\ images = <<>>
  /\ idx = 0
  /\ results = <<>>
  /\ outcome = Running
  /\ calls = <<>>
  /\ tesseract_cmd = DefaultCmd
  /\ TESSDATA_PREFIX = None
  /\ instances = <<OCRPipeline_init(None, None, DefaultLang, DefaultCmd, None).self>>
  /\ constructions = <<Construction("pipeline", None, None, DefaultLang)>>
  /\ self = 0
  /\ used = None

\* A caller calls pipeline.process(input_path, extract_data, page_number,
\* min_confidence).
CallProcess ==
  /\ pc = "idle"
  /\ \E name \in Names, f \in Files, ed \in BOOLEAN,
        pn \in PageNumbers, mc \in MinConfidences :
       /\ args' = [name |-> name, source |-> PathSource(name), extract_data |-> ed,
                   page_number |-> pn, min_confidence |-> mc, last_page |-> None]
       /\ file' = f
  /\ pc' = "process"
  /\ op' = "process"
  /\ UNCHANGED <<images, idx, results, outcome, calls>>
  /\ self' \in 1..Len(instances)
  /\ UNCHANGED <<Configuration, used>>

\* A caller calls pipeline.process_pdf(pdf_path, extract_data, page_number,
\* min_confidence).
CallProcessPdf ==
  /\ pc = "idle"
  /\ \E f \in Files, ed \in BOOLEAN, pn \in PageNumbers, mc \in MinConfidences :
       /\ args' = [name |-> PdfSuffix, source |-> PathSource(PdfSuffix),
                   extract_data |-> ed, page_number |-> pn, min_confidence |-> mc, last_page |-> None]
       /\ file' = f
  /\ pc' = "process_pdf"
  /\ op' = "process_pdf"
  /\ UNCHANGED <<images, idx, results, outcome, calls>>
  /\ self' \in 1..Len(instances)
  /\ UNCHANGED <<Configuration, used>>

\* A caller calls pipeline.process_image(image_source, extract_data,
\* min_confidence) with a PIL image or with a path.
CallProcessImage ==
  /\ pc = "idle"
  /\ \E ed \in BOOLEAN, mc \in MinConfidences :
       \/ \E elems \in ElementLists :
            /\ args' = [name |-> <<>>, source |-> ImageSource(ImageBitmap(elems)),
                        extract_data |-> ed, page_number |-> None,
                        min_confidence |-> mc, last_page |-> None]
            /\ file' = MissingFile
       \/ \E name \in Names, f \in Files :
            /\ args' = [name |-> name, source |-> PathSource(name),
                        extract_data |-> ed, page_number |-> None,
                        min_confidence |-> mc, last_page |-> None]
            /\ file' = f
  /\ pc' = "process_image"
  /\ op' = "process_image"
  /\ UNCHANGED <<images, idx, results, outcome, calls>>
  /\ self' \in 1..Len(instances)
  /\ UNCHANGED <<Configuration, used>>

\* A caller calls parser.extract_text_with_confidence(image, min_confidence);
\* an omitted min_confidence is the default 0.0.
CallExtractTextWithConfidence ==
  /\ pc = "idle"
  /\ \E elems \in ElementLists, t \in Thresholds :
       args' = [name |-> <<>>, source |-> ImageSource(ImageBitmap(elems)),
                extract_data |-> FALSE, page_number |-> None,
                min_confidence |-> Some(t), last_page |-> None]
  /\ file' = MissingFile
  /\ pc' = "extract_text_with_confidence"
  /\ op' = "extract_text_with_confidence"
  /\ UNCHANGED <<images, idx, results, outcome, calls>>
  /\ self' \in 1..Len(instances)
  /\ UNCHANGED <<Configuration, used>>

\* process, lines 151-163: the existence check and the dispatch on the suffix.
Route ==
  /\ pc = "process"
  /\ LET to == route(args.name, file)
     IN  IF to = "FileNotFoundError"
         THEN /\ outcome' = Raise("FileNotFoundError", "Input file not found")
              /\ pc' = "done"
              /\ UNCHANGED calls
         ELSE /\ pc' = to
              /\ calls' = Append(calls,
                   IF to = "process_pdf"
                   THEN RasterCall("process", to, args.page_number,
                                   args.page_number, Running)
                   ELSE OcrCall("process", to, args.source, args.min_confidence,
                                Running))
              /\ UNCHANGED outcome
  /\ UNCHANGED <<op, args, file, images, idx, results>>
  /\ UNCHANGED <<Configuration, self, used>>

\* process_pdf, lines 108-116: the PDF service turns the document into bitmaps.
Rasterize ==
  /\ pc = "process_pdf"
  /\ \E engine \in EngineOutcomes(file) :
       LET ran == pdf_images(file, args.page_number, engine)
       IN  /\ calls' = calls \o ran.calls
           /\ IF ran.out.kind = "raise"
              THEN /\ outcome' = ran.out
                   /\ pc' = "done"
                   /\ UNCHANGED <<images, idx, results>>
              ELSE /\ images' = ran.out.value.v
                   /\ idx' = 1
                   /\ results' = <<>>
                   /\ pc' = "pages"
                   /\ UNCHANGED outcome
  /\ UNCHANGED <<op, args, file>>
  /\ UNCHANGED <<Configuration, self, used>>

\* process_pdf, lines 117-120: one turn of the loop over the bitmaps.
ProcessPage ==
  /\ pc = "pages"
  /\ idx <= Len(images)
  /\ \E backend \in BackendOutcomes :
       LET ran == process_image(ImageSource(images[idx]), args.extract_data,
                                args.min_confidence, file, "ok", backend)
           turn == page_turn(ran.out, results, idx)
       IN  /\ calls' = calls \o ran.calls
           /\ pc' = turn.pc
           /\ outcome' = turn.outcome
           /\ results' = turn.results
           /\ idx' = turn.idx
  /\ UNCHANGED <<op, args, file, images>>
  /\ used' = IF BackendRan(calls, calls') THEN Some(BackendConfig) ELSE used
  /\ UNCHANGED <<Configuration, self>>

\* process_pdf, lines 123-126: the loop is over, the result is returned.
ReturnPages ==
  /\ pc = "pages"
  /\ idx > Len(images)
  /\ outcome' = Return(pdf_result(args.page_number, results))
  /\ pc' = "done"
  /\ UNCHANGED <<op, args, file, images, idx, results, calls>>
  /\ UNCHANGED <<Configuration, self, used>>

\* process_image, lines 71-84, called by the caller or by process (lines
\* 159-163).
ProcessImage ==
  /\ pc = "process_image"
  /\ \E open \in OpenOutcomes(file), backend \in BackendOutcomes :
       LET ran == IF op = "process"
                  THEN image_branch(args.source, args.extract_data, args.page_number,
                                    args.min_confidence, file, open, backend)
                  ELSE process_image(args.source, args.extract_data,
                                     args.min_confidence, file, open, backend)
       IN  /\ calls' = calls \o ran.calls
           /\ outcome' = ran.out
  /\ pc' = "done"
  /\ UNCHANGED <<op, args, file, images, idx, results>>
  /\ used' = IF BackendRan(calls, calls') THEN Some(BackendConfig) ELSE used
  /\ UNCHANGED <<Configuration, self>>

\* extract_text_with_confidence, lines 183-215, called by the caller.
ExtractTextWithConfidence ==
  /\ pc = "extract_text_with_confidence"
  /\ \E open \in OpenOutcomes(file), backend \in BackendOutcomes :
       LET ran == extract_text_with_confidence(args.source, args.min_confidence[1],
                                               file, open, backend)
       IN  /\ calls' = calls \o ran.calls
           /\ outcome' = ran.out
  /\ pc' = "done"
  /\ UNCHANGED <<op, args, file, images, idx, results>>
  /\ used' = IF BackendRan(calls, calls') THEN Some(BackendConfig) ELSE used
  /\ UNCHANGED <<Configuration, self>>

\* A caller calls parser.extract_text(image_source) or
\* parser.extract_data(image_source) with a PIL image or with a path.
CallExtract ==
  /\ pc = "idle"
  /\ \E method \in {"extract_text", "extract_data"} :
       /\ pc' = method
       /\ op' = method
  /\ \/ \E elems \in ElementLists :
          /\ args' = [name |-> <<>>, source |-> ImageSource(ImageBitmap(elems)),
                      extract_data |-> FALSE, page_number |-> None,
                      min_confidence |-> None, last_page |-> None]
          /\ file' = MissingFile
     \/ \E name \in Names, f \in Files :
          /\ args' = [name |-> name, source |-> PathSource(name),
                      extract_data |-> FALSE, page_number |-> None,
                      min_confidence |-> None, last_page |-> None]
          /\ file' = f
  /\ UNCHANGED <<images, idx, results, outcome, calls>>
  /\ self' \in 1..Len(instances)
  /\ UNCHANGED <<Configuration, used>>

\* extract_text (lines 94-110) or extract_data (lines 137-160), called by the
\* caller.
Extract ==
  /\ pc \in {"extract_text", "extract_data"}
  /\ \E open \in OpenOutcomes(file), backend \in BackendOutcomes :
       LET ran == IF pc = "extract_text"
                  THEN extract_text(args.source, file, open, backend)
                  ELSE extract_data(args.source, file, open, backend)
       IN  /\ calls' = calls \o ran.calls
           /\ outcome' = ran.out
  /\ pc' = "done"
  /\ UNCHANGED <<op, args, file, images, idx, results>>
  /\ used' = IF BackendRan(calls, calls') THEN Some(BackendConfig) ELSE used
  /\ UNCHANGED <<Configuration, self>>

\* A caller calls pdf_service.convert_pdf_to_images(pdf_path, first_page,
\* last_page); args.page_number holds first_page.
CallConvertPdfToImages ==
  /\ pc = "idle"
  /\ \E f \in Files, first \in PageNumbers, last \in PageNumbers :
       /\ args' = [name |-> PdfSuffix, source |-> PathSource(PdfSuffix),
                   extract_data |-> FALSE, page_number |-> first,
                   min_confidence |-> None, last_page |-> last]
       /\ file' = f
  /\ pc' = "convert_pdf_to_images"
  /\ op' = "convert_pdf_to_images"
  /\ UNCHANGED <<images, idx, results, outcome, calls>>
  /\ self' \in 1..Len(instances)
  /\ UNCHANGED <<Configuration, used>>

\* A caller calls pdf_service.convert_single_page(pdf_path, page_number).
CallConvertSinglePage ==
  /\ pc = "idle"
  /\ \E f \in Files, p \in 1..(MaxPages + 1) :
       /\ args' = [name |-> PdfSuffix, source |-> PathSource(PdfSuffix),
                   extract_data |-> FALSE, page_number |-> Some(p),
                   min_confidence |-> None, last_page |-> None]
       /\ file' = f
  /\ pc' = "convert_single_page"
  /\ op' = "convert_single_page"
  /\ UNCHANGED <<images, idx, results, outcome, calls>>
  /\ self' \in 1..Len(instances)
  /\ UNCHANGED <<Configuration, used>>

\* convert_pdf_to_images, lines 56-87, called by the caller.
ConvertPdfToImages ==
  /\ pc = "convert_pdf_to_images"
  /\ \E engine \in EngineOutcomes(file) :
       LET ran == convert_pdf_to_images(file, args.page_number, args.last_page, engine)
       IN  /\ calls' = calls \o ran.calls
           /\ outcome' = ran.out
  /\ pc' = "done"
  /\ UNCHANGED <<op, args, file, images, idx, results>>
  /\ UNCHANGED <<Configuration, self, used>>

\* convert_single_page, lines 108-117, called by the caller.
ConvertSinglePage ==
  /\ pc = "convert_single_page"
  /\ \E engine \in EngineOutcomes(file) :
       LET ran == convert_single_page(file, args.page_number[1], engine)
       IN  /\ calls' = calls \o ran.calls
           /\ outcome' = ran.out
  /\ pc' = "done"
  /\ UNCHANGED <<op, args, file, images, idx, results>>
  /\ UNCHANGED <<Configuration, self, used>>

\* A caller calls pdf_service.save_images(images, output_dir, base_name,
\* format).
CallSaveImages ==
  /\ pc = "idle"
  /\ \E imgs \in SavedImages, dir \in OutputDirs, base \in BaseNames, fmt \in Formats :
       args' = [name |-> <<>>, source |-> NoSource, extract_data |-> FALSE,
                page_number |-> None, min_confidence |-> None, last_page |-> None,
                images |-> imgs, output_dir |-> dir, base_name |-> base,
                format |-> fmt]
  /\ pc' = "save_images"
  /\ op' = "save_images"
  /\ UNCHANGED <<file, images, idx, results, outcome, calls>>
  /\ self' \in 1..Len(instances)
  /\ UNCHANGED <<Configuration, used>>

\* save_images, lines 139-149.
SaveImages ==
  /\ pc = "save_images"
  /\ \E failAt \in SaveOutcomes(Len(args.images)) :
       LET ran == save_images(args.images, args.output_dir, args.base_name,
                              args.format, failAt)
       IN  /\ calls' = calls \o ran.calls
           /\ outcome' = ran.out
  /\ pc' = "done"
  /\ UNCHANGED <<op, args, file, images, idx, results>>
  /\ UNCHANGED <<Configuration, self, used>>

\* TesseractOCRParser(tesseract_cmd, tessdata_prefix, lang), between two calls.
ConstructParser ==
  /\ pc = "idle"
  /\ Len(instances) < MaxInstances
  /\ \E cmd \in CmdArgs, prefix \in PrefixArgs, lang \in Langs :
       LET made == TesseractOCRParser_init(cmd, prefix, lang, tesseract_cmd, TESSDATA_PREFIX)
       IN  /\ tesseract_cmd' = made.tesseract_cmd
           /\ TESSDATA_PREFIX' = made.TESSDATA_PREFIX
           /\ instances' = Append(instances, made.self)
           /\ constructions' = Append(constructions,
                                      Construction("parser", cmd, prefix, lang))
  /\ UNCHANGED <<pc, op, args, file, images, idx, results, outcome, calls, self, used>>

\* OCRPipeline(tesseract_cmd, tessdata_prefix, lang=lang), between two calls.
ConstructPipeline ==
  /\ pc = "idle"
  /\ Len(instances) < MaxInstances
  /\ \E cmd \in CmdArgs, prefix \in PrefixArgs, lang \in Langs :
       LET made == OCRPipeline_init(cmd, prefix, lang, tesseract_cmd, TESSDATA_PREFIX)
       IN  /\ tesseract_cmd' = made.tesseract_cmd
           /\ TESSDATA_PREFIX' = made.TESSDATA_PREFIX
           /\ instances' = Append(instances, made.self)
           /\ constructions' = Append(constructions,
                                      Construction("pipeline", cmd, prefix, lang))
  /\ UNCHANGED <<pc, op, args, file, images, idx, results, outcome, calls, self, used>>

\* A caller has one of the instances recognize the bitmap of a page:
\* pipeline.process_image(image) on a pipeline, parser.extract_text(image) on
\* a parser.
CallRecognize ==
  /\ pc = "idle"
  /\ \E s \in 1..Len(instances) :
       /\ self' = s
       /\ pc' = IF instances[s].kind = "pipeline" THEN "process_image" ELSE "extract_text"
       /\ op' = IF instances[s].kind = "pipeline" THEN "process_image" ELSE "extract_text"
  /\ args' = [NoArgs EXCEPT !.source = ImageSource(PageBitmap(1))]
  /\ UNCHANGED <<file, images, idx, results, outcome, calls, Configuration, used>>

\* The caller has its answer; the locals of the call are gone.
Finish ==
  /\ pc = "done"
  /\ pc' = "idle"
  /\ op' = "none"
  /\ args' = NoArgs
  /\ file' = MissingFile
  /\ images' = <<>>
  /\ idx' = 0
  /\ results' = <<>>
  /\ outcome' = Running
  /\ calls' = <<>>
  /\ self' = 0
  /\ used' = None
  /\ UNCHANGED Configuration

Next ==
  \/ CallProcess
  \/ CallProcessPdf
  \/ CallProcessImage
  \/ CallExtractTextWithConfidence
  \/ Route
  \/ Rasterize
  \/ ProcessPage
  \/ ReturnPages
  \/ ProcessImage
  \/ ExtractTextWithConfidence
  \/ CallExtract
  \/ Extract
  \/ CallConvertPdfToImages
  \/ CallConvertSinglePage
  \/ ConvertPdfToImages
  \/ ConvertSinglePage
  \/ CallSaveImages
  \/ SaveImages
  \/ Finish

Spec == Init /\ [][Next]_vars

\* The parsers and pipelines of one process: constructions, and calls on any
\* of the instances constructed so far.
NextInstances ==
  \/ ConstructParser
  \/ ConstructPipeline
  \/ CallRecognize
  \/ ProcessImage
  \/ Extract
  \/ Finish

SpecInstances == Init /\ [][NextInstances]_vars

-----------------------------------------------------------------------------
(* Properties *)

\* The calls process_image made to the Recognizer adapter, in order.
RecognizerCalls == SelectSeq(calls, LAMBDA c : c.by = "process_image")

\* The calls process_pdf made to the Rasterizer adapter.
RasterizerCalls == SelectSeq(calls, LAMBDA c : c.by = "process_pdf")

\* The calls the Rasterizer adapter made to the conversion engine.
EngineCalls == SelectSeq(calls, LAMBDA c : c.fn = "convert_from_path")

\* The current call is, or went through, process_pdf.
InPdf ==
  \/ op = "process_pdf"
  \/ \E i \in 1..Len(calls) : calls[i].by = "process" /\ calls[i].fn = "process_pdf"

\* The current call is, or went through, process_image on the caller's source.
InImage ==
  \/ op = "process_image"
  \/ \E i \in 1..Len(calls) : calls[i].by = "process" /\ calls[i].fn = "process_image"

Returned == pc = "done" /\ outcome.kind = "return"

Raised == pc = "done" /\ outcome.kind = "raise"

\* The Python type of the page result each Recognizer-adapter operation gives.
ResultType(fn) ==
  CASE fn = "extract_text" -> "str"
    [] fn = "extract_data" -> "data"
    [] fn = "extract_text_with_confidence" -> "aggregate"

\* The page result of the per-bitmap pipeline on a bitmap, in the mode of the
\* current call, when the Recognizer does not fail.
PageResultOf(bitmap) ==
  process_image(ImageSource(bitmap), args.extract_data, args.min_confidence,
                file, "ok", "ok").out.value

\* C1: process_image invokes exactly one Recognizer-adapter operation per
\* image, chosen by the priority confidence-filter > raw-data > plain-text:
\* extract_text_with_confidence whenever min_confidence is supplied (even 0,
\* even with extract_data), else extract_data if extract_data, else
\* extract_text.
C1_ModeSelection ==
  LET rc == RecognizerCalls
  IN  /\ \A i \in 1..Len(rc) :
           /\ args.min_confidence # None
                => rc[i].fn = "extract_text_with_confidence"
           /\ args.min_confidence = None /\ args.extract_data
                => rc[i].fn = "extract_data"
           /\ args.min_confidence = None /\ ~args.extract_data
                => rc[i].fn = "extract_text"
           /\ rc[i].min_confidence = args.min_confidence
      /\ InImage /\ pc = "done" => Len(rc) = 1 /\ rc[1].source = args.source
      /\ InPdf /\ pc = "pages" =>
           /\ Len(rc) = idx - 1
           /\ \A i \in 1..Len(rc) : rc[i].source = ImageSource(images[i])
      /\ InPdf /\ Returned => Len(rc) = Len(images)

C1_Witness ==
  /\ Returned
  /\ args.min_confidence = Some(0)
  /\ args.extract_data
  /\ Len(RecognizerCalls) = 1
  /\ RecognizerCalls[1].fn = "extract_text_with_confidence"

\* C2: process_pdf with page_number p >= 1 asks the Rasterizer for exactly the
\* inclusive range [p, p], runs the per-bitmap pipeline exactly once and
\* returns that single page result unwrapped, in every mode.
C2_SinglePage ==
  InPdf /\ args.page_number # None /\ args.page_number[1] >= 1 =>
    LET p == args.page_number[1]
        rc == RecognizerCalls
    IN  /\ Len(EngineCalls) <= 1
        /\ Len(RasterizerCalls) <= 1
        /\ \A i \in 1..Len(EngineCalls) :
             EngineCalls[i].first = Some(p) /\ EngineCalls[i].last = Some(p)
        /\ \A i \in 1..Len(RasterizerCalls) :
             /\ RasterizerCalls[i].first = Some(p)
             /\ RasterizerCalls[i].last = Some(p)
        /\ Len(rc) <= 1
        /\ Returned =>
             /\ Len(EngineCalls) = 1
             /\ Len(rc) = 1
             /\ rc[1].source = ImageSource(PageBitmap(p))
             /\ outcome.value.type = ResultType(rc[1].fn)
             /\ outcome.value = PageResultOf(PageBitmap(p))

C2_Witness ==
  /\ InPdf
  /\ Returned
  /\ args.page_number = Some(2)
  /\ file.pages = 3
  /\ outcome.value.type = "str"

\* C3: process_pdf without page_number, on a document rasterized into n >= 1
\* bitmaps, returns a sequence of exactly n page results, result i being the
\* per-bitmap pipeline's output on bitmap i: page order kept, one Recognizer
\* call per page, none skipped or duplicated.
C3_AllPages ==
  InPdf /\ args.page_number = None /\ Returned =>
    LET n == file.pages
        rc == RecognizerCalls
    IN  /\ Len(EngineCalls) = 1
        /\ EngineCalls[1].count = n
        /\ outcome.value.type = "list"
        /\ Len(outcome.value.v) = n
        /\ \A i \in 1..n : outcome.value.v[i] = PageResultOf(PageBitmap(i))
        /\ Len(rc) = n
        /\ \A i \in 1..n : rc[i].source = ImageSource(PageBitmap(i))

C3_Witness ==
  /\ InPdf
  /\ Returned
  /\ args.page_number = None
  /\ file.pages >= 3
  /\ outcome.value.type = "list"
  /\ Len(outcome.value.v) = file.pages
  /\ outcome.value.v[1] # outcome.value.v[2]

\* An aggregate result of the current call, with the elements and the
\* threshold it was built from: the single result of a direct call, and every
\* page result of process_pdf.
AggCases ==
  { [agg |-> outcome.value.v,
     elems |-> IF args.source.isImage THEN args.source.bitmap.elems ELSE file.elems,
     t |-> args.min_confidence[1]] :
      x \in { y \in {1} : Returned /\ ~InPdf /\ outcome.value.type = "aggregate" } }
  \cup
  { [agg |-> results[i].v, elems |-> images[i].elems, t |-> args.min_confidence[1]] :
      i \in { j \in 1..Len(results) : results[j].type = "aggregate" } }

\* Whether element e passes: text not empty once trimmed, confidence >= t.
Passes(e, t) == Strip(e.text) # <<>> /\ PyInt(e.conf) >= t

\* The k-th smallest member of a set of integers.
Kth(S, k) == CHOOSE i \in S : Cardinality({ j \in S : j < i }) = k - 1

\* C4: words is exactly the subsequence of the input elements whose trimmed
\* text is not empty and whose integer confidence is >= min_confidence, in
\* input order, each word carrying the text, confidence and bbox of its own
\* element.
C4_WordsAreTheFilteredElements ==
  \A c \in AggCases :
    LET kept == { i \in 1..Len(c.elems) : Passes(c.elems[i], c.t) }
        w == c.agg.words
    IN  /\ Len(w) = Cardinality(kept)
        /\ \A k \in 1..Len(w) :
             LET e == c.elems[Kth(kept, k)]
             IN  /\ w[k].text = e.text
                 /\ w[k].confidence = PyInt(e.conf)
                 /\ w[k].bbox = [left |-> e.left, top |-> e.top,
                                 width |-> e.width, height |-> e.height]

C4_Witness ==
  \E c \in AggCases :
    /\ Len(c.elems) = 3
    /\ Len(c.agg.words) = 2
    /\ Passes(c.elems[1], c.t)
    /\ Strip(c.elems[2].text) # <<>> /\ PyInt(c.elems[2].conf) < c.t
    /\ PyInt(c.elems[3].conf) = c.t
    /\ c.agg.words[2].bbox.left = c.elems[3].left

\* The sum of the confidences of the words at the positions K.
RECURSIVE ConfSum(_, _)
ConfSum(w, K) ==
  IF K = {} THEN 0
  ELSE LET k == CHOOSE x \in K : TRUE IN w[k].confidence + ConfSum(w, K \ {k})

\* Whether the fraction avg is the quotient total / n.
IsMean(avg, total, n) == avg.den > 0 /\ avg.num * n = total * avg.den

\* C5: avg_confidence is the arithmetic mean of only those emitted words'
\* confidences that are > 0, and exactly 0 when no emitted word has a
\* confidence > 0, also when words is not empty.
C5_AvgOverPositiveConfidences ==
  \A c \in AggCases :
    LET w == c.agg.words
        positive == { k \in 1..Len(w) : w[k].confidence > 0 }
    IN  IF positive = {} THEN c.agg.avg_confidence = Zero
        ELSE IsMean(c.agg.avg_confidence, ConfSum(w, positive), Cardinality(positive))

C5_Witness ==
  \E c \in AggCases :
    /\ \E k \in 1..Len(c.agg.words) : c.agg.words[k].confidence = 0
    /\ \E k \in 1..Len(c.agg.words) : c.agg.words[k].confidence > 0
    /\ c.agg.avg_confidence # Zero

\* C6, as claimed: avg_confidence is the arithmetic mean of the confidences of
\* all the words (their sum divided by total_words), and 0 when words is empty.
C6_AvgOverAllWords ==
  \A c \in AggCases :
    LET w == c.agg.words
    IN  IF w = <<>> THEN c.agg.avg_confidence = Zero
        ELSE IsMean(c.agg.avg_confidence, ConfSum(w, 1..Len(w)), c.agg.total_words)

\* C6, amended: avg_confidence is the sum of all the words' confidences less
\* those that are not > 0, divided by total_words less the number of such
\* words; it is the mean of all the words when every word's confidence is > 0,
\* and 0 when words is empty or no word's confidence is > 0.
C6_AvgLeavesOutNonPositive ==
  \A c \in AggCases :
    LET w == c.agg.words
        all == 1..Len(w)
        out == { k \in all : w[k].confidence <= 0 }
    IN  /\ w = <<>> => c.agg.avg_confidence = Zero
        /\ out = all => c.agg.avg_confidence = Zero
        /\ out # all =>
             IsMean(c.agg.avg_confidence,
                    ConfSum(w, all) - ConfSum(w, out),
                    c.agg.total_words - Cardinality(out))
        /\ out = {} /\ w # <<>> =>
             IsMean(c.agg.avg_confidence, ConfSum(w, all), c.agg.total_words)

C6_Witness ==
  \E c \in AggCases :
    /\ c.agg.total_words = 3
    /\ \E k \in 1..3 : c.agg.words[k].confidence < 0
    /\ \E k \in 1..3 : c.agg.words[k].confidence > 0
    /\ ~IsMean(c.agg.avg_confidence, ConfSum(c.agg.words, 1..3), 3)

\* C7: process on a path that does not exist ends with FileNotFoundError
\* and, in every mode and for every page_number, makes no call to the
\* Rasterizer or to the Recognizer at any point of the call.
C7_NotFoundBeforeAnyCall ==
  op = "process" /\ ~file.exists =>
    /\ calls = <<>>
    /\ pc \in {"process", "done"}
    /\ pc = "done" => outcome.kind = "raise" /\ outcome.error = "FileNotFoundError"

C7_Witness ==
  /\ op = "process"
  /\ ~file.exists
  /\ Raised
  /\ IsPdf(args.name)
  /\ args.page_number = Some(1)
  /\ args.min_confidence # None

\* Whether the suffix of name is ".pdf" in any mix of cases.
HasPdfExtension(name) ==
  LET x == Suffix(name)
  IN  /\ Len(x) = 4
      /\ x[1] = "."
      /\ x[2] \in {"p", "P"}
      /\ x[3] \in {"d", "D"}
      /\ x[4] \in {"f", "F"}

\* C8: process sends an existing input to process_pdf if and only if its
\* extension is ".pdf" in any mix of cases; any other input, one with no
\* extension too, goes to process_image with the path itself as the source,
\* and on that route the Rasterizer is never called.
C8_Routing ==
  op = "process" /\ file.exists /\ pc # "process" =>
    /\ Len(calls) >= 1
    /\ calls[1].by = "process"
    /\ \A i \in 2..Len(calls) : calls[i].by # "process"
    /\ HasPdfExtension(args.name) <=> calls[1].fn = "process_pdf"
    /\ ~HasPdfExtension(args.name) =>
         /\ calls[1].fn = "process_image"
         /\ calls[1].source = PathSource(args.name)
         /\ RasterizerCalls = <<>>
         /\ EngineCalls = <<>>
         /\ \A i \in 1..Len(RecognizerCalls) :
              RecognizerCalls[i].source = PathSource(args.name)

C8_Witness ==
  /\ op = "process"
  /\ args.name = <<"d", ".", "P", "D", "F">>
  /\ pc = "pages"
  /\ Len(RasterizerCalls) = 1

\* C9: when the Rasterizer produces zero pages without raising, the call ends
\* with PDFConversionError in every mode, for the whole document and for a
\* single page; no result, partial or empty, is returned.
C9_ZeroPagesIsAnError ==
  \A i \in 1..Len(calls) :
    calls[i].fn = "convert_from_path" /\ calls[i].ended = "return"
      /\ calls[i].count = 0 =>
        /\ pc = "done"
        /\ outcome.kind = "raise"
        /\ outcome.error = "PDFConversionError"
        /\ outcome.value = NoValue
        /\ RecognizerCalls = <<>>

C9_Witness ==
  /\ Raised
  /\ args.page_number = None
  /\ args.min_confidence # None
  /\ file.pages >= 2
  /\ Len(EngineCalls) = 1
  /\ EngineCalls[1].ended = "return"
  /\ EngineCalls[1].count = 0

\* C10: in process_pdf over n pages, if the Recognizer fails on page k the
\* call ends with that error: the results of pages 1..k-1 are not returned,
\* the Recognizer is never called on pages k+1..n, and page k is not tried
\* again.
C10_FailFast ==
  InPdf =>
    LET rc == RecognizerCalls
    IN  /\ Len(rc) <= Len(images)
        /\ \A j \in 1..Len(rc) : rc[j].source = ImageSource(images[j])
        /\ \A j \in 1..Len(rc) :
             rc[j].ended = "raise" =>
               /\ j = Len(rc)
               /\ pc = "done"
               /\ outcome.kind = "raise"
               /\ outcome.error = rc[j].error
               /\ outcome.value = NoValue
               /\ Len(results) = j - 1

C10_Witness ==
  /\ InPdf
  /\ Raised
  /\ Len(images) = 3
  /\ Len(RecognizerCalls) = 2
  /\ RecognizerCalls[2].ended = "raise"
  /\ Len(results) = 1

\* The current call is, or reached, the Rasterizer adapter.
InRasterizer ==
  \/ op \in {"convert_pdf_to_images", "convert_single_page"}
  \/ RasterizerCalls # <<>>

\* C11, as claimed: convert_pdf_to_images, and convert_single_page through
\* it, fails with PDFConversionError when the document path does not exist.
C11_MissingPathIsConversionError ==
  InRasterizer /\ ~file.exists /\ pc = "done" =>
    outcome.kind = "raise" /\ outcome.error = "PDFConversionError"

\* C11, amended: convert_pdf_to_images, and convert_single_page through it,
\* fails with FileNotFoundError ("PDF file not found") when the document path
\* does not exist, before the conversion engine is called.
C11_MissingPathIsFileNotFound ==
  InRasterizer /\ ~file.exists /\ pc = "done" =>
    /\ outcome.kind = "raise"
    /\ outcome.error = "FileNotFoundError"
    /\ outcome.msg = "PDF file not found"
    /\ EngineCalls = <<>>

C11_Witness ==
  /\ op = "convert_single_page"
  /\ ~file.exists
  /\ Raised
  /\ Len(calls) = 1
  /\ calls[1].fn = "convert_pdf_to_images"
  /\ calls[1].error = "FileNotFoundError"

\* The calls the Recognizer adapter made to the OCR backend.
BackendCalls ==
  SelectSeq(calls, LAMBDA c : c.fn \in {"image_to_string", "image_to_data"})

\* C12: every failure of the OCR backend during extract_text or extract_data,
\* whatever its kind, reaches the caller as OCRError; no other kind of error
\* leaves the Recognizer adapter for a backend failure.
C12_BackendFailuresAreOCRError ==
  \A i \in 1..Len(BackendCalls) :
    BackendCalls[i].ended = "raise" /\ pc = "done" =>
      outcome.kind = "raise" /\ outcome.error = "OCRError"

\* C13, as claimed: a full document requested with no page_number and no
\* min_confidence comes back as an ordered sequence of aggregate results, one
\* per page.
C13_DefaultIsAggregates ==
  InPdf /\ args.page_number = None /\ args.min_confidence = None /\ Returned =>
    /\ outcome.value.type = "list"
    /\ Len(outcome.value.v) = file.pages
    /\ \A i \in 1..Len(outcome.value.v) : outcome.value.v[i].type = "aggregate"

\* C13, amended: a full document requested with no page_number comes back as
\* an ordered sequence with one result per page; the results are aggregate
\* results (full_text, words, avg_confidence, total_words) when a
\* min_confidence is supplied, 0 included, and without one they are plain
\* strings, or raw element batches when extract_data is set.
C13_AggregatesNeedMinConfidence ==
  InPdf /\ args.page_number = None /\ Returned =>
    /\ outcome.value.type = "list"
    /\ Len(outcome.value.v) = file.pages
    /\ \A i \in 1..Len(outcome.value.v) :
         LET r == outcome.value.v[i]
         IN  /\ args.min_confidence # None =>
                  /\ r.type = "aggregate"
                  /\ DOMAIN r.v = {"full_text", "words", "avg_confidence", "total_words"}
                  /\ r.v = Aggregate(image_to_data(PageElements(i)), args.min_confidence[1])
             /\ args.min_confidence = None /\ ~args.extract_data => r.type = "str"
             /\ args.min_confidence = None /\ args.extract_data => r.type = "data"

C13_Witness ==
  /\ InPdf
  /\ Returned
  /\ args.page_number = None
  /\ args.min_confidence = Some(0)
  /\ ~args.extract_data
  /\ file.pages >= 2
  /\ outcome.value.type = "list"
  /\ \A i \in 1..Len(outcome.value.v) : outcome.value.v[i].type = "aggregate"

\* The outcomes and the Recognizer calls process can end with on the image
\* branch, for a page_number pn, over everything the backend may do.
ImageBranchRuns(pn) ==
  { image_branch(args.source, args.extract_data, pn, args.min_confidence,
                 file, open, backend) :
      open \in OpenOutcomes(file), backend \in BackendOutcomes }

\* C14: for a single-image input a page_number never changes the outcome:
\* for every page_number, process makes the Recognizer call and returns the
\* result it makes and returns without one, and never fails because of it.
C14_PageNumberIgnoredForImages ==
  op = "process" /\ pc = "done" /\ file.exists /\ ~HasPdfExtension(args.name) =>
    /\ \A pn \in PageNumbers :
         [out |-> outcome, calls |-> Tail(calls)] \in ImageBranchRuns(pn)
    /\ \A pn \in PageNumbers : ImageBranchRuns(pn) = ImageBranchRuns(None)
    /\ \A i \in 1..Len(calls) : calls[i].first = None \/ calls[i].by = "process"
    /\ outcome.error \notin {"ValueError", "TypeError", "PDFConversionError"}

C14_Witness ==
  /\ op = "process"
  /\ Returned
  /\ ~HasPdfExtension(args.name)
  /\ args.page_number = Some(2)
  /\ outcome.value.type = "aggregate"
  /\ Len(RecognizerCalls) = 1

\* Whether a is a subsequence of b: b with some of its items left out.
RECURSIVE IsSubseq(_, _)
IsSubseq(a, b) ==
  IF a = <<>> THEN TRUE
  ELSE IF b = <<>> THEN FALSE
  ELSE IF Head(a) = Head(b) THEN IsSubseq(Tail(a), Tail(b))
  ELSE IsSubseq(a, Tail(b))

\* C15: filtering is monotonic: for the elements and the threshold t of a
\* result and every other threshold u, the higher threshold of the two keeps
\* no more words than the lower one, and the words it keeps are a subsequence
\* of the words the lower one keeps.
C15_MonotonicFiltering ==
  \A c \in AggCases : \A u \in Thresholds :
    LET other == Aggregate(image_to_data(c.elems), u)
        low   == IF c.t <= u THEN c.agg ELSE other
        high  == IF c.t <= u THEN other ELSE c.agg
    IN  /\ low.total_words >= high.total_words
        /\ IsSubseq(high.words, low.words)

C15_Witness ==
  \E c \in AggCases : \E u \in Thresholds :
    LET other == Aggregate(image_to_data(c.elems), u)
    IN  /\ c.t < u
        /\ other.total_words > 0
        /\ c.agg.total_words >= other.total_words + 2
        /\ c.agg.words[1] # other.words[1]

\* C16: avg_confidence is within 0..100 for every element list and every
\* threshold, and it is exactly 0 whenever total_words is 0.
C16_AvgWithinRange ==
  \A c \in AggCases :
    /\ c.agg.avg_confidence.den > 0
    /\ 0 <= c.agg.avg_confidence.num
    /\ c.agg.avg_confidence.num <= 100 * c.agg.avg_confidence.den
    /\ c.agg.total_words = 0 => c.agg.avg_confidence = Zero

C16_Witness ==
  \E c \in AggCases :
    /\ c.t < 0
    /\ \E k \in 1..Len(c.agg.words) : c.agg.words[k].confidence = 0 - 1
    /\ \A k \in 1..Len(c.agg.words) : c.agg.words[k].confidence <= 0
    /\ c.agg.total_words > 0
    /\ c.agg.avg_confidence = Zero

\* C17: when min_confidence is greater than every confidence in the element
\* list, the aggregate is the empty result: total_words 0, no words, the empty
\* string as full_text and avg_confidence 0.
C17_ThresholdAboveAllIsEmpty ==
  \A c \in AggCases :
    (\A i \in 1..Len(c.elems) : PyInt(c.elems[i].conf) < c.t) =>
      c.agg = [ full_text |-> <<>>, words |-> <<>>,
                avg_confidence |-> Zero, total_words |-> 0 ]

C17_Witness ==
  \E c \in AggCases :
    /\ Len(c.elems) >= 2
    /\ \A i \in 1..Len(c.elems) : PyInt(c.elems[i].conf) < c.t
    /\ \E i \in 1..Len(c.elems) : Strip(c.elems[i].text) # <<>>
    /\ c.agg.total_words = 0
    /\ c.agg.full_text = <<>>

\* C18: every word of a confidence-filtered result has a confidence >= the
\* min_confidence of the call, whether the call was to the parser, to
\* process_image, to process or to process_pdf.
C18_WordsMeetTheThreshold ==
  \A c \in AggCases :
    \A k \in 1..Len(c.agg.words) : c.agg.words[k].confidence >= c.t

C18_Witness ==
  /\ op = "process"
  /\ ~InPdf
  /\ \E c \in AggCases :
       /\ c.t = 30
       /\ \E i \in 1..Len(c.elems) :
            Strip(c.elems[i].text) # <<>> /\ PyInt(c.elems[i].conf) < c.t
       /\ \E k \in 1..Len(c.agg.words) : c.agg.words[k].confidence = c.t
       /\ \E k \in 1..Len(c.agg.words) : c.agg.words[k].confidence > c.t

\* C19, as claimed: for every min_confidence, the negative ones included,
\* every emitted word has a confidence within 0..100 and no element of
\* confidence -1 is among the words.
C19_NoWordBelowZero ==
  \A c \in AggCases :
    \A k \in 1..Len(c.agg.words) : c.agg.words[k].confidence \in 0..100

\* C19, amended: for every min_confidence greater than -1, the default 0
\* included, every emitted word has a confidence within 0..100 and no element
\* of confidence -1 is among the words; for a min_confidence of -1 or less
\* every element of confidence -1 whose trimmed text is not empty is among
\* the words.
C19_NoWordBelowZeroFromMinusOneUp ==
  \A c \in AggCases :
    /\ c.t > 0 - 1 =>
         \A k \in 1..Len(c.agg.words) : c.agg.words[k].confidence \in 0..100
    /\ c.t <= 0 - 1 =>
         \A i \in 1..Len(c.elems) :
           PyInt(c.elems[i].conf) = 0 - 1 /\ Strip(c.elems[i].text) # <<>> =>
             \E k \in 1..Len(c.agg.words) :
               /\ c.agg.words[k].confidence = 0 - 1
               /\ c.agg.words[k].text = c.elems[i].text

C19_Witness ==
  \E c \in AggCases :
    /\ c.t = 0
    /\ \E i \in 1..Len(c.elems) :
         PyInt(c.elems[i].conf) = 0 - 1 /\ Strip(c.elems[i].text) # <<>>
    /\ c.agg.total_words > 0
    /\ \A k \in 1..Len(c.agg.words) : c.agg.words[k].confidence >= 0

\* C20: whenever a confidence-filtered result has total_words > 0, its
\* avg_confidence is >= the min_confidence of the call.
C20_AvgMeetsTheThreshold ==
  \A c \in AggCases :
    c.agg.total_words > 0 =>
      c.agg.avg_confidence.num >= c.t * c.agg.avg_confidence.den

C20_Witness ==
  \E c \in AggCases :
    /\ c.t = 88
    /\ c.agg.total_words = 2
    /\ \E i \in 1..Len(c.elems) :
         Strip(c.elems[i].text) # <<>> /\ PyInt(c.elems[i].conf) < c.t
    /\ c.agg.avg_confidence.num > c.t * c.agg.avg_confidence.den

\* The texts of the words w from the k-th on, each but the last followed by
\* one space.
RECURSIVE SpacedFrom(_, _)
SpacedFrom(w, k) ==
  IF k > Len(w) THEN <<>>
  ELSE IF k = Len(w) THEN w[k].text
  ELSE w[k].text \o <<" ">> \o SpacedFrom(w, k + 1)

\* C21: in every aggregate result full_text is the texts of words joined by
\* single spaces in the order of words, which is the order of the source
\* elements, and total_words is the number of entries of words.
C21_FullTextJoinsWordsInOrder ==
  \A c \in AggCases :
    /\ c.agg.full_text = SpacedFrom(c.agg.words, 1)
    /\ c.agg.total_words = Len(c.agg.words)
    /\ IsSubseq([k \in 1..Len(c.agg.words) |-> c.agg.words[k].bbox.left],
                [i \in 1..Len(c.elems) |-> c.elems[i].left])

C21_Witness ==
  \E c \in AggCases :
    /\ c.agg.total_words = 3
    /\ c.agg.words[1].confidence > c.agg.words[2].confidence
    /\ c.agg.words[2].confidence < c.agg.words[3].confidence
    /\ c.agg.words[1].bbox.left > c.agg.words[3].bbox.left
    /\ c.agg.full_text = c.agg.words[1].text \o <<" ">> \o c.agg.words[2].text
                           \o <<" ">> \o c.agg.words[3].text

\* The type of the result process_image returns in a mode.
ShapeOf(extractData, min_confidence) ==
  IF min_confidence # None THEN "aggregate"
  ELSE IF extractData THEN "data"
  ELSE "str"

\* C23: process on an existing path that is not a PDF never returns a
\* sequence: for every mode and every page_number it returns one page result,
\* a string, one raw element batch or one aggregate result, the shape
\* process_image returns for that mode.
C23_ImagePathNeverReturnsASequence ==
  op = "process" /\ Returned /\ ~HasPdfExtension(args.name) =>
    /\ outcome.value.type # "list"
    /\ outcome.value.type = ShapeOf(args.extract_data, args.min_confidence)
    /\ \A open \in OpenOutcomes(file), backend \in BackendOutcomes :
         LET direct == process_image(args.source, args.extract_data,
                                     args.min_confidence, file, open, backend).out
         IN  direct.kind = "return" => direct.value.type = outcome.value.type

C23_Witness ==
  /\ op = "process"
  /\ Returned
  /\ ~HasPdfExtension(args.name)
  /\ args.page_number = Some(1)
  /\ args.extract_data
  /\ args.min_confidence = None
  /\ outcome.value.type = "data"

\* C24: in convert_pdf_to_images a failure of the conversion engine other
\* than PDFConversionError reaches the caller as PDFConversionError 'Failed to
\* convert PDF', and the PDFConversionError raised inside for zero pages
\* reaches the caller as it is, not wrapped a second time.
C24_EngineFailuresAreWrappedOnce ==
  InRasterizer /\ pc = "done" =>
    \A i \in 1..Len(EngineCalls) :
      LET e == EngineCalls[i]
      IN  /\ e.ended = "raise" /\ e.error # "PDFConversionError" =>
               outcome = Raise("PDFConversionError", "Failed to convert PDF")
          /\ e.ended = "return" /\ e.count = 0 =>
               outcome = Raise("PDFConversionError", "No pages extracted from PDF")

C24_Witness ==
  /\ op = "convert_pdf_to_images"
  /\ Raised
  /\ Len(EngineCalls) = 1
  /\ EngineCalls[1].ended = "raise"
  /\ EngineCalls[1].error = "PDFPageCountError"
  /\ outcome.error = "PDFConversionError"
  /\ outcome.msg = "Failed to convert PDF"

\* C27: when the Rasterizer yields zero pages for the page convert_single_page
\* asks for, the call fails with the 'No pages extracted from PDF'
\* PDFConversionError of convert_pdf_to_images; convert_pdf_to_images never
\* returns an empty list, and the 'Failed to convert page' error of
\* convert_single_page is raised in no execution.
C27_SinglePageErrorIsNeverRaised ==
  /\ outcome.msg # "Failed to convert page"
  /\ \A i \in 1..Len(calls) :
       calls[i].fn = "convert_pdf_to_images" /\ calls[i].ended = "return" =>
         calls[i].count > 0
  /\ op = "convert_pdf_to_images" /\ Returned => outcome.value.v # <<>>
  /\ pc = "done" /\ (op = "convert_single_page"
                       \/ \E i \in 1..Len(calls) : calls[i].fn = "convert_single_page") =>
       \A i \in 1..Len(EngineCalls) :
         EngineCalls[i].ended = "return" /\ EngineCalls[i].count = 0 =>
           outcome = Raise("PDFConversionError", "No pages extracted from PDF")

C27_Witness ==
  /\ op = "convert_single_page"
  /\ Raised
  /\ file.pages >= 1
  /\ args.page_number[1] <= file.pages
  /\ Len(EngineCalls) = 1
  /\ EngineCalls[1].ended = "return"
  /\ EngineCalls[1].count = 0
  /\ outcome.msg = "No pages extracted from PDF"

\* C28: process_pdf with page_number = 0 behaves as with page_number omitted:
\* it rasterizes the whole document and returns a sequence with one result per
\* page, not a single unwrapped result nor an error of its own; only the
\* page_number values other than 0 select the single-page mode.
C28_PageZeroIsTheWholeDocument ==
  InPdf =>
    /\ args.page_number = Some(0) =>
         /\ \A engine \in EngineOutcomes(file) :
              pdf_images(file, Some(0), engine) = pdf_images(file, None, engine)
         /\ \A r \in {results, <<Str(<<>>)>>} : pdf_result(Some(0), r) = pdf_result(None, r)
         /\ RasterizerCalls # <<>> =>
              /\ RasterizerCalls[1].fn = "convert_pdf_to_images"
              /\ RasterizerCalls[1].first = None
              /\ RasterizerCalls[1].last = None
         /\ pc = "pages" => Len(images) = file.pages
         /\ Returned =>
              /\ outcome.value.type = "list"
              /\ Len(outcome.value.v) = file.pages
         /\ Raised =>
              \/ \E i \in 1..Len(calls) : calls[i].ended = "raise"
              \/ ~file.exists
    /\ RasterizerCalls # <<>> =>
         (RasterizerCalls[1].fn = "convert_single_page"
            <=> args.page_number \notin {None, Some(0)})

C28_Witness ==
  /\ InPdf
  /\ Returned
  /\ args.page_number = Some(0)
  /\ file.pages >= 2
  /\ outcome.value.type = "list"
  /\ Len(outcome.value.v) = file.pages
  /\ Len(RecognizerCalls) = file.pages

\* The positions in calls of the calls made to and inside the PDF service.
RasterPositions ==
  { i \in 1..Len(calls) :
      calls[i].by \in {"process_pdf", "convert_single_page", "convert_pdf_to_images"} }

\* The positions in calls of the calls made to and inside the parser.
RecognizerPositions ==
  { i \in 1..Len(calls) :
      calls[i].by \in {"process_image", "extract_text", "extract_data",
                       "extract_text_with_confidence"} }

\* C30: in every process_pdf call the Rasterizer is invoked exactly once, every
\* Recognizer call is made after that rasterization returned, and when the
\* rasterization fails (missing file, zero pages, engine failure) the
\* Recognizer is not invoked at all.
C30_OneRasterizationBeforeRecognition ==
  InPdf =>
    /\ Len(RasterizerCalls) <= 1
    /\ pc \in {"pages", "done"} => Len(RasterizerCalls) = 1
    /\ RecognizerPositions # {} =>
         /\ Len(RasterizerCalls) = 1
         /\ RasterizerCalls[1].ended = "return"
         /\ \A i \in RasterPositions, j \in RecognizerPositions : i < j
    /\ Len(RasterizerCalls) = 1 /\ RasterizerCalls[1].ended = "raise" =>
         /\ RecognizerPositions = {}
         /\ pc = "done"
         /\ outcome.kind = "raise"
         /\ outcome.error = RasterizerCalls[1].error

C30_Witness ==
  /\ InPdf
  /\ Returned
  /\ file.pages >= 2
  /\ args.page_number = None
  /\ Len(RasterizerCalls) = 1
  /\ Len(RecognizerCalls) = file.pages

\* C26, as claimed: within one process_pdf call the pages are rasterized and
\* recognized one at a time: page i+1 is not rasterized before page i has
\* been recognized, and the recognition calls are in increasing page order.
C26_OnePageAtATime ==
  InPdf /\ RasterizerCalls # <<>> =>
    /\ RasterizerCalls[1].count <= Len(RecognizerCalls) + 1
    /\ \A k \in 1..Len(RecognizerCalls) :
         k > 1 => RecognizerCalls[k].source.bitmap.page
                    > RecognizerCalls[k - 1].source.bitmap.page

\* C26, amended: within one process_pdf call every requested page is
\* rasterized first, by the single Rasterizer call, and the pages are then
\* recognized one at a time in page order: no page is recognized before all
\* the pages are rasterized, the k-th recognition call is on the k-th
\* rasterized page, and page k+1 is not recognized before the recognition of
\* page k has returned.
C26_RasterizeAllThenRecognizeInOrder ==
  InPdf =>
    /\ \A i \in RasterPositions, j \in RecognizerPositions : i < j
    /\ pc = "pages" =>
         /\ RasterizerCalls[1].count = Len(images)
         /\ ~Truthy(args.page_number) =>
              images = [p \in 1..file.pages |-> PageBitmap(p)]
         /\ Len(RecognizerCalls) = idx - 1
    /\ \A k \in 1..Len(RecognizerCalls) :
         /\ RecognizerCalls[k].source = ImageSource(images[k])
         /\ ~Truthy(args.page_number) => RecognizerCalls[k].source.bitmap.page = k
         /\ k < Len(RecognizerCalls) => RecognizerCalls[k].ended = "return"

C26_Witness ==
  /\ InPdf
  /\ pc = "pages"
  /\ args.page_number = None
  /\ Len(images) = 3
  /\ Len(RecognizerCalls) = 2
  /\ RecognizerCalls[2].source.bitmap.page = 2

\* The calls save_images made to image.save, in order.
SaveCalls == SelectSeq(calls, LAMBDA c : c.by = "save_images")

\* The name save_images gives the i-th file, for i < 1000: the base name, an
\* underscore, the three decimal digits of i, a dot and the extension.
FileName(base_name, i, extension) ==
  base_name \o <<"_", DigitChar(i \div 100), DigitChar((i \div 10) % 10),
                 DigitChar(i % 10), ".">> \o extension

\* C25: save_images returns one path per input image, in input order; the
\* i-th image, counted from 1, is saved once, to output_dir/<base_name>_<i
\* zero-padded to 3 digits>.<format lower-cased>, with the upper-cased format;
\* for an empty list it returns an empty list and saves nothing.
C25_OnePathPerImage ==
  op = "save_images" /\ Returned =>
    LET paths == outcome.value.v
        n == Len(args.images)
    IN  /\ outcome.value.type = "list"
        /\ Len(paths) = n
        /\ Len(SaveCalls) = n
        /\ \A i \in 1..n :
             /\ paths[i] = PathValue(args.output_dir \o <<"/">>
                                       \o FileName(args.base_name, i, <<"p", "n", "g">>))
             /\ SaveCalls[i].source.bitmap = args.images[i]
             /\ SaveCalls[i].path = paths[i].v
             /\ SaveCalls[i].format = <<"P", "N", "G">>
             /\ SaveCalls[i].ended = "return"
        /\ n = 0 => paths = <<>> /\ calls = <<>>

C25_Witness ==
  /\ op = "save_images"
  /\ Returned
  /\ Len(args.images) >= 10
  /\ args.format = <<"P", "n", "g">>
  /\ Len(outcome.value.v) = Len(args.images)
  /\ outcome.value.v[10].v = args.output_dir \o <<"/">> \o args.base_name
                               \o <<"_", "0", "1", "0", ".", "p", "n", "g">>

\* The last construction that supplied the setting read by given, 0 when
\* none did.
LastSupplying(given(_)) ==
  LET S == { i \in 1..Len(constructions) : TruthyStr(given(constructions[i])) }
  IN  IF S = {} THEN 0 ELSE CHOOSE i \in S : \A j \in S : j <= i

CmdOf(c) == c.tesseract_cmd

PrefixOf(c) == c.tessdata_prefix

\* C22, as claimed: no state is shared between instances: whatever other
\* parsers and pipelines were constructed or used in between, the calls of an
\* instance use the recognizer configuration it was constructed with.
C22_CallsUseTheirOwnConfiguration ==
  used # None =>
    /\ TruthyStr(constructions[self].tesseract_cmd) =>
         used[1].tesseract_cmd = constructions[self].tesseract_cmd[1]
    /\ TruthyStr(constructions[self].tessdata_prefix) =>
         used[1].TESSDATA_PREFIX = Some(constructions[self].tessdata_prefix[1])

\* C29: after any sequence of constructions the process-wide recognizer
\* command, and likewise TESSDATA_PREFIX, is the value given by the most
\* recent construction that supplied one, constructions supplying none leave
\* it unchanged, every instance recognizes with that last-written value, and
\* lang stays that of the instance.
C29_LastConstructionWins ==
  /\ tesseract_cmd = IF LastSupplying(CmdOf) = 0 THEN DefaultCmd
                     ELSE constructions[LastSupplying(CmdOf)].tesseract_cmd[1]
  /\ TESSDATA_PREFIX = IF LastSupplying(PrefixOf) = 0 THEN None
                       ELSE Some(constructions[LastSupplying(PrefixOf)].tessdata_prefix[1])
  /\ Len(instances) = Len(constructions)
  /\ \A i \in 1..Len(instances) :
       /\ instances[i].lang = constructions[i].lang
       /\ instances[i].kind = constructions[i].kind
  /\ used # None =>
       used[1] = [tesseract_cmd |-> tesseract_cmd, TESSDATA_PREFIX |-> TESSDATA_PREFIX,
                  lang |-> constructions[self].lang]

C29_Witness ==
  /\ pc = "done"
  /\ used # None
  /\ Len(constructions) = 3
  /\ self = 2
  /\ constructions[2].tesseract_cmd = Some(<<"a">>)
  /\ constructions[2].tessdata_prefix = Some(<<"q">>)
  /\ constructions[2].lang = "fra"
  /\ constructions[3].tesseract_cmd = Some(<<"b">>)
  /\ constructions[3].tessdata_prefix = None
  /\ constructions[3].lang = "eng"
  /\ used[1] = [tesseract_cmd |-> <<"b">>, TESSDATA_PREFIX |-> Some(<<"q">>),
                lang |-> "fra"]

=============================================================================
